---- MODULE Spec2Model ----
(***************************************************************************)
(* aionotify: the Watcher state machine (aionotify/base.py), the buffered  *)
(* descriptor stream (aionotify/aioutils.py) and the inotify instance the  *)
(* watcher talks to through LibC.                                          *)
(*                                                                         *)
(* Coroutines are modelled at the granularity of the event loop: one       *)
(* action runs a coroutine from one suspension point to the next (or to    *)
(* its return or raise).  The suspension points are anyio.wait_readable    *)
(* in UnixFileDescriptorStream.read and anyio.to_thread.run_sync in        *)
(* Watcher._setup_watch.  Bytes are bytes: frames are packed and unpacked  *)
(* as struct 'iIII' does on a little-endian machine.                       *)
(***************************************************************************)
EXTENDS Integers, Sequences, FiniteSets, TLC

VARIABLES
    _fd,          \* Watcher._fd: None or the inotify handle
    _stream,      \* Watcher._stream: None or the UnixFileDescriptorStream
    requests,     \* Watcher.requests: the dict's entries, in insertion order
    descriptors,  \* Watcher.descriptors: alias -> wd
    aliases,      \* Watcher.aliases: wd -> alias
    kernel,       \* the inotify facility behind LibC
    enter,        \* the __aenter__ coroutine, when suspended in its flush
    tasks,        \* the awatch coroutines suspended in _setup_watch
    getter,       \* the __anext__ coroutine, when suspended in a stream read
    ret,          \* what the step returned or raised to its caller
    written,      \* history: the frames the kernel has queued, in order
    delivered,    \* history: the Events get_event has returned, in order
    unwatched,    \* history: <<alias, wd>> unwatched and not registered again
    stable,       \* history: aliases has not changed since the first frame
    issued,       \* history: alias -> inotify_add_watch calls since it was registered
    entered       \* history: an __aenter__ has returned

vars == <<_fd, _stream, requests, descriptors, aliases, kernel, enter, tasks,
          getter, ret, written, delivered, unwatched, stable, issued, entered>>

(***************************************************************************)
(* Bounds of the model.                                                    *)
(***************************************************************************)
\* Kernel watch descriptors handed out by one inotify instance.
MaxWd == 2
\* Frames the kernel queues in one run.
MaxFrames == 3
\* awatch coroutines suspended at the same time.
MaxTasks == 1

\* Python's None, and a present value.
None == <<>>
Some(x) == <<x>>
Val(o) == o[1]

\* Explicit aliases callers pass, and the paths they name.  "nx" does not
\* exist: inotify_add_watch fails on it.  "p1" and "p2" are directories.
Aliases == {"A"}
ExistingPaths == {"p1", "p2"}
Paths == ExistingPaths \cup {"nx"}
\* File names (bytes) created or renamed inside a watched directory.
Names == {<<97>>, <<1>>}

\* aionotify.Flags: the inotify event bits used here.
Flags == [ATTRIB |-> 4, CREATE |-> 256, MOVED_FROM |-> 64, MOVED_TO |-> 128,
          DELETE_SELF |-> 1024, IGNORED |-> 32768]
\* The mask the model's callers register with: every event the model's
\* filesystem produces.
WatchFlags == Flags.ATTRIB + Flags.CREATE + Flags.MOVED_FROM + Flags.MOVED_TO
                  + Flags.DELETE_SELF

(***************************************************************************)
(* Bytes.                                                                  *)
(***************************************************************************)
Min(a, b) == IF a <= b THEN a ELSE b

\* Python's b[lo:hi] for 0 <= lo <= hi.
Slice(b, lo, hi) == SubSeq(b, lo + 1, Min(hi, Len(b)))

\* struct 'I': an unsigned 32-bit integer, little-endian.
PackU(v) == <<v % 256, (v \div 256) % 256, (v \div 65536) % 256,
              (v \div 16777216) % 256>>
\* struct 'i': a signed 32-bit integer, two's complement.
PackI(v) == IF v >= 0 THEN PackU(v)
            ELSE [i \in 1..4 |-> 255 - PackU(-v - 1)[i]]
UnpackU(b) == b[1] + 256 * b[2] + 65536 * b[3] + 16777216 * b[4]
UnpackI(b) == IF b[4] >= 128
              THEN -UnpackU([i \in 1..4 |-> 255 - b[i]]) - 1
              ELSE UnpackU(b)

\* PREFIX = struct.Struct('iIII'); PREFIX.size
PREFIX_size == 16
PREFIX_pack(wd, flags, cookie, length) ==
    PackI(wd) \o PackU(flags) \o PackU(cookie) \o PackU(length)
PREFIX_unpack(b) ==
    [wd |-> UnpackI(SubSeq(b, 1, 4)), flags |-> UnpackU(SubSeq(b, 5, 8)),
     cookie |-> UnpackU(SubSeq(b, 9, 12)), length |-> UnpackU(SubSeq(b, 13, 16))]

\* bytes.rstrip(b'\x00')
RECURSIVE rstrip(_)
rstrip(b) == IF b # <<>> /\ b[Len(b)] = 0 THEN rstrip(SubSeq(b, 1, Len(b) - 1))
             ELSE b

\* bytes.decode('utf-8', errors="replace"), to code points: one- and two-byte
\* sequences; any other byte becomes U+FFFD.
RECURSIVE decode(_)
decode(b) ==
    IF b = <<>> THEN <<>>
    ELSE IF b[1] < 128 THEN <<b[1]>> \o decode(Tail(b))
    ELSE IF b[1] >= 194 /\ b[1] < 224 /\ Len(b) >= 2 /\ b[2] >= 128 /\ b[2] < 192
         THEN <<(b[1] - 192) * 64 + (b[2] - 128)>> \o decode(Tail(Tail(b)))
    ELSE <<65533>> \o decode(Tail(b))

(***************************************************************************)
(* The inotify facility: one instance per inotify_init.                    *)
(*   watches : wd -> path of the watched directory                         *)
(*   next    : the next fresh wd (the kernel does not reuse one)           *)
(*   queue   : the frames queued and not yet read, each as its bytes       *)
(*   inits   : inotify_init calls so far                                   *)
(*   limit   : the frames it queues in one run; events beyond are dropped  *)
(***************************************************************************)
\* The length the kernel gives a name: NUL-terminated, padded to a multiple
\* of the header size; 0 for an event on the watched directory itself.
NameLen(name) == IF name = <<>> THEN 0
                 ELSE ((Len(name) + PREFIX_size) \div PREFIX_size) * PREFIX_size

\* One frame on the wire.
FrameBytes(f) ==
    PREFIX_pack(f.wd, f.flags, f.cookie, NameLen(f.name))
        \o f.name \o [i \in 1..(NameLen(f.name) - Len(f.name)) |-> 0]

Frame(wd, flags, cookie, name) ==
    [wd |-> wd, flags |-> flags, cookie |-> cookie, name |-> name]

\* The wd inotify_add_watch returns: negative for a path that does not
\* exist, the existing wd for a directory already watched, else a fresh one.
WdOfPath(k, path) ==
    IF path \notin ExistingPaths THEN -1
    ELSE IF \E w \in DOMAIN k.watches : k.watches[w] = path
         THEN CHOOSE w \in DOMAIN k.watches : k.watches[w] = path
    ELSE k.next

\* LibC.inotify_init: a new, empty instance.
inotify_init(k) ==
    [watches |-> <<>>, next |-> 1, queue |-> <<>>, inits |-> k.inits + 1,
     limit |-> k.limit]

\* LibC.inotify_add_watch: the kernel's state after the call.
inotify_add_watch(k, path) ==
    LET wd == WdOfPath(k, path) IN
    IF wd < 0 THEN k
    ELSE [k EXCEPT !.watches = (wd :> path) @@ k.watches,
                   !.next = IF wd = k.next THEN k.next + 1 ELSE k.next]

\* LibC.inotify_rm_watch's return code: 0, or -1 for a wd that is no watch.
rm_watch_code(k, wd) == IF wd \in DOMAIN k.watches THEN 0 ELSE -1

\* The kernel queues the frames fs while the run's frame budget lasts.
Queue(k, fs) ==
    [k EXCEPT !.queue = k.queue \o [i \in 1..Len(fs) |-> FrameBytes(fs[i])]]

Restrict(f, S) == [x \in S |-> f[x]]

\* LibC.inotify_rm_watch: the watch is dropped and IN_IGNORED is queued.
inotify_rm_watch(k, wd, room) ==
    IF wd \notin DOMAIN k.watches THEN k
    ELSE LET k1 == [k EXCEPT !.watches = Restrict(k.watches, DOMAIN k.watches \ {wd})]
         IN IF room THEN Queue(k1, <<Frame(wd, Flags.IGNORED, 0, <<>>)>>) ELSE k1

\* os.read(fd, max_size) on the instance: the whole frames at the head of
\* the queue that fit in max_size bytes.
RECURSIVE TakeFrames(_, _)
TakeFrames(q, room) ==
    IF q = <<>> \/ Len(q[1]) > room THEN 0
    ELSE 1 + TakeFrames(Tail(q), room - Len(q[1]))

RECURSIVE Concat(_)
Concat(q) == IF q = <<>> THEN <<>> ELSE q[1] \o Concat(Tail(q))

os_read(k, size) == Concat(SubSeq(k.queue, 1, TakeFrames(k.queue, size)))
after_read(k, size) ==
    [k EXCEPT !.queue = SubSeq(k.queue, TakeFrames(k.queue, size) + 1, Len(k.queue))]

(***************************************************************************)
(* UnixFileDescriptorStream (aioutils.py).                                 *)
(***************************************************************************)
max_size == 4096

\* The attributes the class defines: what a method call on a stream finds.
StreamMethods == {"__init__", "read", "aclose", "__repr__"}

\* UnixFileDescriptorStream(fileno).  The attribute pos does not exist
\* until read assigns it.
NewStream(fileno) == [_fileno |-> fileno, _buf |-> <<>>, _pos |-> 0, pos |-> None]

\* read(nbytes), from the line after the refill on: the bytes returned and
\* the stream afterwards.  The branch that empties the buffer assigns
\* self.pos, not self._pos.
read(s, nbytes) ==
    LET pos == s._pos + nbytes IN
    [res |-> Slice(s._buf, s._pos, s._pos + nbytes),
     stream |-> IF pos >= Len(s._buf)
                THEN [s EXCEPT !.pos = Some(0), !._buf = <<>>]
                ELSE [s EXCEPT !._pos = pos]]

(***************************************************************************)
(* Watcher.requests is a dict: entries in insertion order.  A deletion     *)
(* leaves a dead entry behind, which only an iterator over the dict can    *)
(* tell from no entry, so dead entries are kept only while __aenter__      *)
(* iterates.                                                               *)
(***************************************************************************)
Dead == [alias |-> "", path |-> "", flags |-> 0]
Live(reqs) == {i \in DOMAIN reqs : reqs[i] # Dead}
Keys(reqs) == {reqs[i].alias : i \in Live(reqs)}
Compact(reqs) == SelectSeq(reqs, LAMBDA e : e # Dead)

\* requests[alias] = (path, flags), for an alias that is not a key.
dict_set(reqs, alias, path, flags) ==
    Append(reqs, [alias |-> alias, path |-> path, flags |-> flags])

\* del requests[alias]
dict_del(reqs, alias, iterating) ==
    IF iterating
    THEN [i \in DOMAIN reqs |-> IF reqs[i].alias = alias THEN Dead ELSE reqs[i]]
    ELSE SelectSeq(reqs, LAMBDA e : e.alias # alias)

\* An iterator that does not notice that the dict changed under it.
dict_next_unchecked(reqs, pos, used, left) ==
    IF \E i \in Live(reqs) : i >= pos
    THEN [k |-> "item", i |-> CHOOSE i \in Live(reqs) :
                                 i >= pos /\ \A j \in Live(reqs) : j >= pos => i <= j]
    ELSE [k |-> "stop", i |-> 0]

\* next() on the iterator of requests.items() that is at entry pos, was
\* created when the dict held used keys and has left items still to give:
\* "changed size" when the dict holds another number of keys, "keys changed"
\* when it finds an entry after it gave as many as the dict held.
dict_next(reqs, pos, used, left) ==
    IF Cardinality(Live(reqs)) # used THEN [k |-> "RuntimeError", i |-> 0]
    ELSE IF \E i \in Live(reqs) : i >= pos
         THEN IF left = 0 THEN [k |-> "RuntimeError", i |-> 0]
              ELSE [k |-> "item", i |-> CHOOSE i \in Live(reqs) :
                         i >= pos /\ \A j \in Live(reqs) : j >= pos => i <= j]
    ELSE [k |-> "stop", i |-> 0]

(***************************************************************************)
(* What a step hands back to its caller.                                   *)
(***************************************************************************)
NoRet == [op |-> "", res |-> "", ev |-> None]
Ret(op, res) == [op |-> op, res |-> res, ev |-> None]

Event(flags, cookie, name, alias) ==
    [flags |-> flags, cookie |-> cookie, name |-> name, alias |-> alias]

NoTask == [pc |-> "none", pos |-> 0, used |-> 0, left |-> 0, alias |-> "", path |-> "",
           wd |-> 0]
NoGetter == [pc |-> "idle", hdr |-> None]

\* Watcher.closed()
closed == _fd = None

\* Frames the kernel may still queue in this run.
Room(n) == Len(written) + n <= kernel.limit

(***************************************************************************)
(* Watcher.__init__ and _reset; no inotify instance exists yet.            *)
(***************************************************************************)
Boot(limit) ==
    /\ _fd = None
    /\ _stream = None
    /\ requests = <<>>
    /\ descriptors = <<>>
    /\ aliases = <<>>
    /\ kernel = [watches |-> <<>>, next |-> 1, queue |-> <<>>, inits |-> 0,
                 limit |-> limit]
    /\ enter = NoTask
    /\ tasks = <<>>
    /\ getter = NoGetter
    /\ ret = NoRet
    /\ written = <<>>
    /\ delivered = <<>>
    /\ unwatched = {}
    /\ stable = TRUE
    /\ issued = <<>>
    /\ entered = FALSE

\* stable: the id-to-alias map is what it was when the first frame was queued.
\* entered: some __aenter__ has run to its return.
History ==
    /\ stable' = (stable /\ (written = <<>> \/ aliases' = aliases))
    /\ entered' = (entered \/ ret' = Ret("__aenter__", "ok"))

\* One more inotify_add_watch call made for alias.
Issue(alias) ==
    (alias :> (IF alias \in DOMAIN issued THEN issued[alias] ELSE 0) + 1) @@ issued

\* Everything a registration, a start or a stop leaves alone.
StreamIdle == UNCHANGED <<getter, written, delivered>>

(***************************************************************************)
(* _setup_watch / _setup_watch_sync after the kernel call returned wd:     *)
(* the tables afterwards.                                                  *)
(***************************************************************************)
setup_descriptors(alias, wd) == (alias :> wd) @@ descriptors
setup_aliases(alias, wd) == (wd :> alias) @@ aliases

\* A kernel call that would hand out a wd beyond the model's bound.
WithinWd(path) == WdOfPath(kernel, path) <= MaxWd

(***************************************************************************)
(* Watcher.watch(path, flags, alias=arg)                                   *)
(***************************************************************************)
\* "alias in self.requests": the duplicate check of watch and awatch.
registered_active_only(alias) == alias \in DOMAIN descriptors

registered(alias) == alias \in Keys(requests)

\* _setup_watch_sync with a failing kernel call that also calls _reset.
setup_watch_sync_reset(alias, path) ==
    IF alias \in DOMAIN descriptors
    THEN /\ ret' = Ret("watch", "AssertionError")
         /\ UNCHANGED <<descriptors, aliases, kernel>>
    ELSE LET wd == WdOfPath(kernel, path) IN
         /\ kernel' = inotify_add_watch(kernel, path)
         /\ IF wd < 0
            THEN /\ ret' = Ret("watch", "IOError")
                 /\ descriptors' = <<>>
                 /\ aliases' = <<>>
            ELSE /\ ret' = Ret("watch", "ok")
                 /\ descriptors' = setup_descriptors(alias, wd)
                 /\ aliases' = setup_aliases(alias, wd)

\* _setup_watch_sync(alias, path, flags)
_setup_watch_sync(alias, path) ==
    IF alias \in DOMAIN descriptors
    THEN /\ ret' = Ret("watch", "AssertionError")
         /\ UNCHANGED <<descriptors, aliases, kernel>>
    ELSE LET wd == WdOfPath(kernel, path) IN
         /\ kernel' = inotify_add_watch(kernel, path)
         /\ IF wd < 0
            THEN /\ ret' = Ret("watch", "IOError")
                 /\ UNCHANGED <<descriptors, aliases>>
            ELSE /\ ret' = Ret("watch", "ok")
                 /\ descriptors' = setup_descriptors(alias, wd)
                 /\ aliases' = setup_aliases(alias, wd)

watch(path, arg) ==
    LET alias == IF arg = None THEN path ELSE Val(arg) IN
    /\ (_stream # None /\ ~registered(alias)) => WithinWd(path)
    /\ StreamIdle
    /\ UNCHANGED <<_fd, _stream, enter, tasks>>
    /\ IF registered(alias)
       THEN /\ ret' = Ret("watch", "ValueError")
            /\ UNCHANGED <<requests, descriptors, aliases, kernel, unwatched>>
       ELSE /\ requests' = dict_set(requests, alias, path, WatchFlags)
            /\ unwatched' = {u \in unwatched : u[1] # alias}
            /\ IF _stream = None
               THEN /\ ret' = Ret("watch", "ok")
                    /\ UNCHANGED <<descriptors, aliases, kernel>>
               ELSE _setup_watch_sync(alias, path)
    /\ issued' = IF registered(alias) THEN issued
                 ELSE (alias :> (IF _stream # None /\ alias \notin DOMAIN descriptors
                                 THEN 1 ELSE 0)) @@ issued
    /\ History

(***************************************************************************)
(* Watcher.awatch(path, flags, alias=arg), up to its return, its raise or  *)
(* its suspension in _setup_watch at to_thread.run_sync.                   *)
(***************************************************************************)
awatch(path, arg) ==
    LET alias == IF arg = None THEN path ELSE Val(arg) IN
    /\ (_stream # None /\ ~registered(alias)) =>
           Cardinality(DOMAIN tasks) < MaxTasks
    /\ StreamIdle
    /\ UNCHANGED <<_fd, _stream, enter, descriptors, aliases, kernel>>
    /\ IF registered(alias)
       THEN /\ ret' = Ret("awatch", "ValueError")
            /\ UNCHANGED <<requests, tasks, unwatched>>
       ELSE /\ requests' = dict_set(requests, alias, path, WatchFlags)
            /\ unwatched' = {u \in unwatched : u[1] # alias}
            /\ IF _stream = None
               THEN /\ ret' = Ret("awatch", "ok")
                    /\ UNCHANGED tasks
               ELSE \* _setup_watch
                    IF alias \in DOMAIN descriptors
                    THEN /\ ret' = Ret("awatch", "AssertionError")
                         /\ UNCHANGED tasks
                    ELSE /\ ret' = NoRet
                         /\ tasks' = (alias :> [pc |-> "thread", path |-> path, wd |-> 0])
                                        @@ tasks
    /\ issued' = IF registered(alias) THEN issued ELSE (alias :> 0) @@ issued
    /\ History

\* The worker thread of an awatch runs LibC.inotify_add_watch.
awatch_thread(alias) ==
    /\ alias \in DOMAIN tasks
    /\ tasks[alias].pc = "thread"
    /\ WithinWd(tasks[alias].path)
    /\ kernel' = inotify_add_watch(kernel, tasks[alias].path)
    /\ tasks' = [tasks EXCEPT ![alias] =
                    [@ EXCEPT !.pc = "resume",
                               !.wd = WdOfPath(kernel, tasks[alias].path)]]
    /\ ret' = NoRet
    /\ StreamIdle
    /\ UNCHANGED <<_fd, _stream, requests, descriptors, aliases, enter, unwatched>>
    /\ issued' = Issue(alias)
    /\ History

\* awatch resumes in _setup_watch with the wd the thread got.
awatch_resume(alias) ==
    /\ alias \in DOMAIN tasks
    /\ tasks[alias].pc = "resume"
    /\ tasks' = Restrict(tasks, DOMAIN tasks \ {alias})
    /\ StreamIdle
    /\ UNCHANGED <<_fd, _stream, requests, kernel, enter, unwatched>>
    /\ IF tasks[alias].wd < 0
       THEN /\ ret' = Ret("awatch", "IOError")
            /\ UNCHANGED <<descriptors, aliases>>
       ELSE /\ ret' = Ret("awatch", "ok")
            /\ descriptors' = setup_descriptors(alias, tasks[alias].wd)
            /\ aliases' = setup_aliases(alias, tasks[alias].wd)
    /\ UNCHANGED issued
    /\ History

(***************************************************************************)
(* Watcher.__aenter__ (and setup).  flush is the for loop from its next()  *)
(* to the suspension in _setup_watch, or to the loop's end.                *)
(***************************************************************************)
flush(reqs, pos, used, left, descs) ==
    LET it == dict_next(reqs, pos, used, left) IN
    IF it.k = "RuntimeError" THEN [res |-> "RuntimeError", task |-> NoTask]
    ELSE IF it.k = "stop" THEN [res |-> "ok", task |-> NoTask]
    ELSE IF reqs[it.i].alias \in DOMAIN descs
         THEN [res |-> "AssertionError", task |-> NoTask]
    ELSE [res |-> "",
          task |-> [pc |-> "thread", pos |-> it.i + 1, used |-> used, left |-> left - 1,
                    alias |-> reqs[it.i].alias, path |-> reqs[it.i].path, wd |-> 0]]

\* The end of the for loop, or its next suspension: what the caller gets and
\* what is left of the dict's dead entries.
flush_step(reqs, pos, used, left, descs) ==
    LET f == flush(reqs, pos, used, left, descs) IN
    /\ enter' = f.task
    /\ ret' = IF f.res = "" THEN NoRet ELSE Ret("__aenter__", f.res)
    /\ requests' = IF f.res = "" THEN reqs ELSE Compact(reqs)

\* The body of __aenter__ after its check: the handle, the stream, the flush.
start ==
    /\ kernel' = inotify_init(kernel)
    /\ _fd' = Some(kernel'.inits)
    /\ _stream' = Some(NewStream(kernel'.inits))
    /\ flush_step(requests, 1, Cardinality(Live(requests)),
                  Cardinality(Live(requests)), descriptors)

\* __aenter__ without its check.
aenter_unchecked ==
    /\ StreamIdle
    /\ UNCHANGED <<descriptors, aliases, tasks, unwatched>>
    /\ start
    /\ UNCHANGED issued
    /\ History

__aenter__ ==
    /\ StreamIdle
    /\ UNCHANGED <<descriptors, aliases, tasks, unwatched>>
    /\ IF _fd # None
       THEN /\ ret' = Ret("__aenter__", "RuntimeError")
            /\ UNCHANGED <<_fd, _stream, requests, kernel, enter>>
       ELSE start
    /\ UNCHANGED issued
    /\ History

\* The worker thread of the flush runs LibC.inotify_add_watch.
enter_thread ==
    /\ enter.pc = "thread"
    /\ WithinWd(enter.path)
    /\ kernel' = inotify_add_watch(kernel, enter.path)
    /\ enter' = [enter EXCEPT !.pc = "resume", !.wd = WdOfPath(kernel, enter.path)]
    /\ ret' = NoRet
    /\ StreamIdle
    /\ UNCHANGED <<_fd, _stream, requests, descriptors, aliases, tasks, unwatched>>
    /\ issued' = Issue(enter.alias)
    /\ History

\* __aenter__ resumes in _setup_watch with the wd the thread got, and goes on
\* with the loop.
enter_resume ==
    /\ enter.pc = "resume"
    /\ StreamIdle
    /\ UNCHANGED <<_fd, _stream, kernel, tasks, unwatched>>
    /\ IF enter.wd < 0
       THEN /\ ret' = Ret("__aenter__", "IOError")
            /\ enter' = NoTask
            /\ requests' = Compact(requests)
            /\ UNCHANGED <<descriptors, aliases>>
       ELSE /\ descriptors' = setup_descriptors(enter.alias, enter.wd)
            /\ aliases' = setup_aliases(enter.alias, enter.wd)
            /\ flush_step(requests, enter.pos, enter.used, enter.left, descriptors')
    /\ UNCHANGED issued
    /\ History

(***************************************************************************)
(* Watcher._close (close, and __aexit__ whatever the body did).  The call  *)
(* self._stream.close() comes first; _stream is None or an object of a     *)
(* class that defines StreamMethods.                                       *)
(***************************************************************************)
\* A _close that drops the handle before its call on the stream raises.
close_fd_first ==
    /\ StreamIdle
    /\ UNCHANGED <<requests, kernel, enter, tasks, unwatched>>
    /\ ret' = Ret("close", "AttributeError")
    /\ _fd' = None
    /\ UNCHANGED <<_stream, descriptors, aliases>>
    /\ UNCHANGED issued
    /\ History

_close ==
    /\ StreamIdle
    /\ UNCHANGED <<requests, kernel, enter, tasks, unwatched>>
    /\ IF _stream = None \/ "close" \notin StreamMethods
       THEN /\ ret' = Ret("close", "AttributeError")
            /\ UNCHANGED <<_fd, _stream, descriptors, aliases>>
       ELSE /\ ret' = Ret("close", "ok")
            /\ _fd' = None
            /\ _stream' = None
            /\ descriptors' = <<>>
            /\ aliases' = <<>>
    /\ UNCHANGED issued
    /\ History

(***************************************************************************)
(* Watcher.unwatch(alias)                                                  *)
(***************************************************************************)
\* unwatch from "wd = self.descriptors[alias]" on.
unwatch_active(alias) ==
    LET wd == descriptors[alias] IN
    IF rm_watch_code(kernel, wd) # 0
    THEN /\ ret' = Ret("unwatch", "IOError")
         /\ UNCHANGED <<requests, descriptors, aliases, kernel, written, unwatched>>
    ELSE /\ kernel' = inotify_rm_watch(kernel, wd, Room(1))
         /\ written' = IF Room(1)
                       THEN Append(written, Frame(wd, Flags.IGNORED, 0, <<>>))
                       ELSE written
         /\ descriptors' = Restrict(descriptors, DOMAIN descriptors \ {alias})
         /\ IF alias \notin Keys(requests)
            THEN /\ ret' = Ret("unwatch", "KeyError")
                 /\ UNCHANGED <<requests, aliases, unwatched>>
            ELSE /\ requests' = dict_del(requests, alias, enter.pc # "none")
                 /\ IF wd \notin DOMAIN aliases
                    THEN /\ ret' = Ret("unwatch", "KeyError")
                         /\ UNCHANGED <<aliases, unwatched>>
                    ELSE /\ ret' = Ret("unwatch", "ok")
                         /\ aliases' = Restrict(aliases, DOMAIN aliases \ {wd})
                         /\ unwatched' = unwatched \cup {<<alias, wd>>}

\* unwatch that lets an alias it does not know pass.
unwatch_forgiving(alias) ==
    /\ UNCHANGED <<_fd, _stream, enter, tasks, getter, delivered>>
    /\ IF alias \notin DOMAIN descriptors
       THEN /\ ret' = Ret("unwatch", "ok")
            /\ UNCHANGED <<requests, descriptors, aliases, kernel, written, unwatched>>
       ELSE unwatch_active(alias)
    /\ issued' = IF alias \in Keys(requests') THEN issued
                 ELSE Restrict(issued, DOMAIN issued \ {alias})
    /\ History

unwatch(alias) ==
    /\ UNCHANGED <<_fd, _stream, enter, tasks, getter, delivered>>
    /\ IF alias \notin DOMAIN descriptors
       THEN /\ ret' = Ret("unwatch", "ValueError")
            /\ UNCHANGED <<requests, descriptors, aliases, kernel, written, unwatched>>
       ELSE unwatch_active(alias)
    /\ issued' = IF alias \in Keys(requests') THEN issued
                 ELSE Restrict(issued, DOMAIN issued \ {alias})
    /\ History

(***************************************************************************)
(* Watcher.__anext__ (and get_event).  anext_run is the while loop from a  *)
(* point where the stream holds s and the loop is about to read the prefix *)
(* (phase "prefix") or the name of the frame whose header is hdr (phase    *)
(* "path"), to its suspension in wait_readable, its return or its raise.   *)
(* A read suspends when the buffer is empty, whatever nbytes is.           *)
(***************************************************************************)
RECURSIVE anext_run(_, _, _)
anext_run(s, phase, hdr) ==
    IF s._buf = <<>>
    THEN [k |-> "suspend", stream |-> s, pc |-> phase, hdr |-> hdr, ev |-> None]
    ELSE IF phase = "prefix"
    THEN LET r == read(s, PREFIX_size) IN
         IF Len(r.res) # PREFIX_size
         THEN [k |-> "struct.error", stream |-> r.stream, pc |-> "idle",
               hdr |-> None, ev |-> None]
         ELSE anext_run(r.stream, "path", Some(PREFIX_unpack(r.res)))
    ELSE LET h == Val(hdr)
             r == read(s, h.length)
         IN IF h.wd \notin DOMAIN aliases
            THEN anext_run(r.stream, "prefix", None)
            ELSE IF Len(r.res) # h.length
            THEN [k |-> "struct.error", stream |-> r.stream, pc |-> "idle",
                  hdr |-> None, ev |-> None]
            ELSE [k |-> "return", stream |-> r.stream, pc |-> "idle", hdr |-> None,
                  ev |-> Some(Event(h.flags, h.cookie, decode(rstrip(r.res)),
                                    aliases[h.wd]))]

\* What one run of the loop leaves behind.
anext_step(r) ==
    /\ _stream' = Some(r.stream)
    /\ getter' = [pc |-> r.pc, hdr |-> r.hdr]
    /\ ret' = IF r.k = "suspend" THEN NoRet
              ELSE [Ret("get_event", IF r.k = "return" THEN "ok" ELSE r.k)
                        EXCEPT !.ev = r.ev]
    /\ delivered' = IF r.k = "return" THEN Append(delivered, Val(r.ev)) ELSE delivered

\* A call of get_event.
__anext__ ==
    /\ getter.pc = "idle"
    /\ UNCHANGED <<_fd, requests, descriptors, aliases, kernel, enter, tasks,
                   written, unwatched>>
    /\ IF _stream = None
       THEN /\ ret' = Ret("get_event", "AttributeError")
            /\ UNCHANGED <<_stream, getter, delivered>>
       ELSE anext_step(anext_run(Val(_stream), "prefix", None))
    /\ UNCHANGED issued
    /\ History

\* The handle is readable: wait_readable returns, read refills the buffer
\* with one os.read and the loop goes on.
anext_wake ==
    /\ getter.pc \in {"prefix", "path"}
    /\ _stream # None
    /\ kernel.queue # <<>>
    /\ kernel' = after_read(kernel, max_size)
    /\ UNCHANGED <<_fd, requests, descriptors, aliases, enter, tasks, written,
                   unwatched>>
    /\ anext_step(anext_run([Val(_stream) EXCEPT !._buf = os_read(kernel, max_size)],
                            getter.pc, getter.hdr))
    /\ UNCHANGED issued
    /\ History

(***************************************************************************)
(* The filesystem: what happens in and to the watched directories.         *)
(***************************************************************************)
Emit(fs) ==
    /\ Room(Len(fs))
    /\ kernel' = Queue(kernel, fs)
    /\ written' = written \o fs
    /\ ret' = NoRet
    /\ UNCHANGED <<_fd, _stream, requests, descriptors, aliases, enter, tasks,
                   getter, delivered, unwatched>>
    /\ UNCHANGED issued
    /\ History

\* A file is created in a watched directory.
fs_create(wd, name) ==
    /\ wd \in DOMAIN kernel.watches
    /\ Emit(<<Frame(wd, Flags.CREATE, 0, name)>>)

\* A file of a watched directory is renamed inside it: two frames that
\* share a fresh cookie.
fs_rename(wd, old, new) ==
    /\ wd \in DOMAIN kernel.watches
    /\ old # new
    /\ Emit(<<Frame(wd, Flags.MOVED_FROM, Len(written) + 1, old),
              Frame(wd, Flags.MOVED_TO, Len(written) + 1, new)>>)

\* The metadata of a watched directory itself changes: one frame with no
\* name.
fs_attrib(wd) ==
    /\ wd \in DOMAIN kernel.watches
    /\ Emit(<<Frame(wd, Flags.ATTRIB, 0, <<>>)>>)

(***************************************************************************)
(* A caller of UnixFileDescriptorStream.read itself, reading frame after   *)
(* frame as __anext__ does: the header, then as many bytes as the frame's  *)
(* name takes.  delivered holds [nbytes, res] of each read that returned.  *)
(***************************************************************************)
\* The frame the next read is in, and the nbytes it asks for.
ReadFrame == (Len(delivered) \div 2) + 1
ReadSize == IF Len(delivered) % 2 = 0 THEN PREFIX_size
            ELSE NameLen(written[ReadFrame].name)

\* read returned res to its caller.
read_return(nbytes, r) ==
    /\ _stream' = Some(r.stream)
    /\ getter' = NoGetter
    /\ ret' = [Ret("read", "ok") EXCEPT !.ev = Some(r.res)]
    /\ delivered' = Append(delivered, [nbytes |-> nbytes, res |-> r.res])

\* read(nbytes) up to its return, or to its suspension in wait_readable.
stream_read ==
    /\ getter.pc = "idle"
    /\ _stream # None
    /\ Len(delivered) % 2 = 1 => ReadFrame \in DOMAIN written
    /\ UNCHANGED <<_fd, requests, descriptors, aliases, kernel, enter, tasks,
                   written, unwatched>>
    /\ IF Val(_stream)._buf = <<>>
       THEN /\ getter' = [pc |-> "read", hdr |-> Some(ReadSize)]
            /\ ret' = NoRet
            /\ UNCHANGED <<_stream, delivered>>
       ELSE read_return(ReadSize, read(Val(_stream), ReadSize))
    /\ UNCHANGED issued
    /\ History

\* The handle is readable: the suspended read refills the buffer and returns.
stream_wake ==
    /\ getter.pc = "read"
    /\ kernel.queue # <<>>
    /\ kernel' = after_read(kernel, max_size)
    /\ UNCHANGED <<_fd, requests, descriptors, aliases, enter, tasks, written,
                   unwatched>>
    /\ read_return(Val(getter.hdr),
                   read([Val(_stream) EXCEPT !._buf = os_read(kernel, max_size)],
                        Val(getter.hdr)))
    /\ UNCHANGED issued
    /\ History

(***************************************************************************)
(* The specification.                                                      *)
(***************************************************************************)
\* The registrations callers make: each directory under its own path, and
\* under an explicit alias "p1" (a second watch of it) or a path that does
\* not exist.
Calls == {<<p, None>> : p \in ExistingPaths}
             \cup {<<p, Some(a)>> : p \in {"p1", "nx"}, a \in Aliases}
AliasOf(c) == IF c[2] = None THEN c[1] ELSE Val(c[2])
AliasValues == Aliases \cup ExistingPaths

\* Registration, start and stop, with every coroutine interleaving, while
\* watched directories come and go.
Step ==
    \/ \E c \in Calls : watch(c[1], c[2])
    \/ \E c \in Calls : awatch(c[1], c[2])
    \/ \E alias \in AliasValues : awatch_thread(alias)
    \/ \E alias \in AliasValues : awatch_resume(alias)
    \/ __aenter__
    \/ enter_thread
    \/ enter_resume
    \/ _close
    \/ \E alias \in AliasValues : unwatch(alias)

Next == Step

\* No event is queued: the instance drops them all.
Init == Boot(0)

Spec == Init /\ [][Next]_vars

\* Event delivery: directories watched under their own path as alias, files
\* created and renamed in them, and a consumer calling get_event.
EventStep ==
    \/ \E path \in ExistingPaths : watch(path, None)
    \/ __aenter__
    \/ enter_thread
    \/ enter_resume
    \/ \E alias \in ExistingPaths : unwatch(alias)
    \/ __anext__
    \/ anext_wake
    \/ \E wd \in 1..MaxWd, name \in Names : fs_create(wd, name)
    \/ \E wd \in 1..MaxWd, old \in Names, new \in Names : fs_rename(wd, old, new)

EventNext == EventStep

EventInit == Boot(MaxFrames)

EventSpec == EventInit /\ [][EventNext]_vars

\* The flush of __aenter__ against awatch calls of another task, for
\* directories that exist: each under its own path, "p1" also as "A".
FlushCalls == {<<p, None>> : p \in ExistingPaths} \cup {<<"p1", Some(a)>> : a \in Aliases}

FlushStep ==
    \/ \E c \in FlushCalls : awatch(c[1], c[2])
    \/ \E alias \in AliasValues : awatch_thread(alias)
    \/ \E alias \in AliasValues : awatch_resume(alias)
    \/ __aenter__
    \/ enter_thread
    \/ enter_resume

FlushNext == FlushStep

FlushInit == Boot(0)

FlushSpec == FlushInit /\ [][FlushNext]_vars

\* Events on the watched directories themselves: frames without a name,
\* among frames with one, and a consumer calling get_event.
DirStep ==
    \/ \E path \in ExistingPaths : watch(path, None)
    \/ __aenter__
    \/ enter_thread
    \/ enter_resume
    \/ __anext__
    \/ anext_wake
    \/ \E wd \in 1..MaxWd, name \in Names : fs_create(wd, name)
    \/ \E wd \in 1..MaxWd : fs_attrib(wd)

DirNext == DirStep

DirInit == Boot(MaxFrames)

DirSpec == DirInit /\ [][DirNext]_vars

\* The stream alone: a started watcher whose stream is read by a caller of
\* read, while files and the watched directories change.
ReadStep ==
    \/ \E path \in ExistingPaths : watch(path, None)
    \/ __aenter__
    \/ enter_thread
    \/ enter_resume
    \/ stream_read
    \/ stream_wake
    \/ \E wd \in 1..MaxWd, name \in Names : fs_create(wd, name)
    \/ \E wd \in 1..MaxWd, old \in Names, new \in Names : fs_rename(wd, old, new)
    \/ \E wd \in 1..MaxWd : fs_attrib(wd)

ReadNext == ReadStep

ReadInit == Boot(MaxFrames)

ReadSpec == ReadInit /\ [][ReadNext]_vars

(***************************************************************************)
(* The claims.                                                             *)
(***************************************************************************)
Tables == <<requests, descriptors, aliases>>
Started == _fd # None

\* The aliases that are values of the id-to-alias map.
Resolved(al) == {al[w] : w \in DOMAIN al}

\* The Event a frame stands for while its wd is a key of aliases: the
\* header fields, and the name payload without its padding, as text.
Payload(f) == Slice(FrameBytes(f), PREFIX_size, PREFIX_size + NameLen(f.name))
EventOf(f) == Event(f.flags, f.cookie, decode(rstrip(Payload(f))), aliases[f.wd])

\* The Events of the frames written for an active watch, in writing order.
RECURSIVE EventsOf(_)
EventsOf(fs) ==
    IF fs = <<>> THEN <<>>
    ELSE IF fs[1].wd \in DOMAIN aliases THEN <<EventOf(fs[1])>> \o EventsOf(Tail(fs))
    ELSE EventsOf(Tail(fs))

IsPrefix(s, t) == Len(s) <= Len(t) /\ s = SubSeq(t, 1, Len(s))

\* C1: once unwatch(alias) has succeeded, and until the alias is registered
\* again, get_event returns no Event with that alias, and the frames of the
\* removed watch are dropped without an error: every get_event that ends
\* after an unwatch ends with an Event, whose alias is registered.
C1_UnwatchedSilent ==
    (ret.op = "get_event" /\ unwatched # {}) =>
        /\ ret.res = "ok"
        /\ Val(ret.ev).alias \in Keys(requests)

\* C2: while the watches stay as they are, the Events get_event returned are
\* the Events of the frames written for an active watch, in writing order,
\* and none is missing once the consumer waits on a drained handle.
C2_InOrderNoLoss ==
    stable =>
        /\ IsPrefix(delivered, EventsOf(written))
        /\ (getter.pc # "idle" /\ kernel.queue = <<>>) => delivered = EventsOf(written)

\* C3: every Event get_event returns is the Event of one written frame: that
\* frame's flags and cookie, its name payload without the padding, and the
\* alias of its wd.
C3_EventOfAFrame ==
    (ret.op = "get_event" /\ ret.res = "ok") =>
        \E i \in DOMAIN written :
            /\ written[i].wd \in DOMAIN aliases
            /\ Val(ret.ev) = EventOf(written[i])

\* C4: when inotify_add_watch fails for a pending request during start,
\* __aenter__ raises IOError and the watcher is left not started: closed()
\* is true and the handle and stream that start opened are gone.
C4_FailedStartReleases ==
    (ret.op = "__aenter__" /\ ret.res = "IOError") => (closed /\ _stream = None)

\* C5: after close (__aexit__) on a started watcher the handle is released
\* and the stream closed: closed() is true, _fd and _stream are None and
\* both active-watch maps are empty.
C5_StopReleases ==
    ret.op = "close" =>
        /\ closed
        /\ _fd = None /\ _stream = None
        /\ DOMAIN descriptors = {} /\ DOMAIN aliases = {}

\* C6: watch and awatch with an alias that is pending (a key of requests) or
\* active (a key of descriptors) raise ValueError, idle or started, make no
\* kernel call and leave requests, descriptors and aliases as they were.
C6_DuplicateAlias ==
    [][\A c \in Calls :
          (AliasOf(c) \in Keys(requests) \cup DOMAIN descriptors) =>
              /\ watch(c[1], c[2]) =>
                    /\ ret' = Ret("watch", "ValueError")
                    /\ UNCHANGED <<Tables, kernel, tasks>>
              /\ awatch(c[1], c[2]) =>
                    /\ ret' = Ret("awatch", "ValueError")
                    /\ UNCHANGED <<Tables, kernel, tasks>>]_vars

\* C6 happens: a registration was refused on a started watcher with an
\* active watch, while every alias there is was registered.
C6_Witness ==
    /\ ret.res = "ValueError" /\ ret.op \in {"watch", "awatch"}
    /\ Started
    /\ DOMAIN descriptors # {}
    /\ Keys(requests) = AliasValues

\* C7: unwatch of an alias that is not a key of descriptors raises
\* ValueError, also when the alias is only pending, makes no kernel call
\* and leaves every table as it was.
C7_UnknownAlias ==
    [][\A a \in AliasValues :
          (a \notin DOMAIN descriptors /\ unwatch(a)) =>
              /\ ret' = Ret("unwatch", "ValueError")
              /\ UNCHANGED <<Tables, kernel>>]_vars

\* C7 happens: unwatch was refused on a watcher that was never started and
\* on which every alias there is is pending.
C7_Witness ==
    /\ ret = Ret("unwatch", "ValueError")
    /\ closed
    /\ Keys(requests) = AliasValues

\* C8: when watch or awatch on a started watcher meets a failing
\* inotify_add_watch, the call raises IOError, the watcher stays started and
\* the watches that were active keep their kernel id and their alias.
C8_FailedWatchKeepsOthers ==
    [][/\ \A c \in Calls :
             (watch(c[1], c[2]) /\ Started /\ AliasOf(c) \notin Keys(requests)
                  /\ c[1] \notin ExistingPaths) => ret'.res = "IOError"
       /\ \A a \in DOMAIN tasks :
             (awatch_resume(a) /\ tasks[a].path \notin ExistingPaths)
                 => ret'.res = "IOError"
       /\ (ret'.op \in {"watch", "awatch"} /\ ret'.res = "IOError") =>
             /\ _fd' # None /\ _stream' # None
             /\ descriptors' = descriptors
             /\ aliases' = aliases
             /\ kernel'.watches = kernel.watches]_vars

\* C8 happens: a registration failed with IOError while a watch is active.
C8_Witness ==
    /\ ret.op \in {"watch", "awatch"} /\ ret.res = "IOError"
    /\ DOMAIN descriptors # {}
    /\ DOMAIN aliases # {}

\* C9: unwatch of an active alias is all or nothing.  With a non-zero code
\* from inotify_rm_watch it raises IOError and the alias stays in requests,
\* descriptors and aliases; with 0 the alias leaves all three.
C9_UnwatchAllOrNothing ==
    [][\A a \in AliasValues :
          (a \in DOMAIN descriptors /\ unwatch(a)) =>
              IF rm_watch_code(kernel, descriptors[a]) # 0
              THEN /\ ret'.res = "IOError"
                   /\ a \in Keys(requests')
                   /\ a \in DOMAIN descriptors'
                   /\ a \in Resolved(aliases')
              ELSE /\ ret'.res = "ok"
                   /\ a \notin Keys(requests')
                   /\ a \notin DOMAIN descriptors'
                   /\ a \notin Resolved(aliases')]_vars

\* C10: __aenter__ on a started watcher raises RuntimeError, opens no handle
\* and leaves the handle, the stream and the tables as they were.
C10_EnterTwice ==
    [][(__aenter__ /\ Started) =>
          /\ ret' = Ret("__aenter__", "RuntimeError")
          /\ UNCHANGED <<_fd, _stream, Tables, kernel, enter, tasks>>]_vars

\* C10 happens: a second start was refused while watches are active.
C10_Witness ==
    /\ ret = Ret("__aenter__", "RuntimeError")
    /\ Started
    /\ DOMAIN descriptors # {}

\* C11: after a start that succeeded and then a stop, __aenter__ does not
\* raise the already-started RuntimeError and the watcher is started again.
C11_RestartAfterStop ==
    [][(entered /\ ret.op = "close" /\ __aenter__) =>
          /\ ret'.res # "RuntimeError"
          /\ _fd' # None /\ _stream' # None
          /\ kernel'.inits = kernel.inits + 1]_vars

\* The bytes of the handle: the frames written, one after the other.
RECURSIVE StreamBytes(_)
StreamBytes(fs) == IF fs = <<>> THEN <<>> ELSE FrameBytes(fs[1]) \o StreamBytes(Tail(fs))

\* The bytes the reads returned, one after the other.
RECURSIVE ReadBytes(_)
ReadBytes(rs) == IF rs = <<>> THEN <<>> ELSE rs[1].res \o ReadBytes(Tail(rs))

\* C12: read(n) returns exactly n bytes, the next n of the handle's bytes:
\* over reads of the header size and then the name length, across refills,
\* the results put together are the bytes of the handle so far, none skipped
\* and none twice.
C12_ReadExact ==
    /\ \A i \in DOMAIN delivered : Len(delivered[i].res) = delivered[i].nbytes
    /\ IsPrefix(ReadBytes(delivered), StreamBytes(written))

\* C13: watch and awatch on a watcher that is not started only record the
\* request; when __aenter__ then returns, every alias of requests is active
\* and exactly one inotify_add_watch call was made for it: the keys of
\* descriptors are the keys of requests.
C13_FlushActivatesAll ==
    /\ [](ret = Ret("__aenter__", "ok") =>
             /\ DOMAIN descriptors = Keys(requests)
             /\ \A a \in Keys(requests) : issued[a] = 1)
    /\ [][\A c \in Calls :
             (_stream = None /\ ~registered(AliasOf(c))
                  /\ (watch(c[1], c[2]) \/ awatch(c[1], c[2]))) =>
                 /\ requests' = dict_set(requests, AliasOf(c), c[1], WatchFlags)
                 /\ ret'.res = "ok"
                 /\ UNCHANGED <<_fd, _stream, descriptors, aliases, kernel, tasks>>]_vars

\* C13 happens: a start has returned after flushing two requests that were
\* recorded before it.
C13_Witness ==
    /\ ret = Ret("__aenter__", "ok")
    /\ Cardinality(Keys(requests)) >= 2
    /\ DOMAIN descriptors = Keys(requests)

\* C14: stop on a watcher whose start has returned empties requests too, so
\* that an alias registered before the stop can be registered again: after
\* it, watch and awatch of any alias do not raise ValueError.
C14_StopClearsRequests ==
    [][(entered /\ enter.pc = "none" /\ _close) =>
          /\ requests' = <<>>
          /\ \A a \in AliasValues : ~registered(a)']_vars

\* C15: when __aenter__ fails because inotify_add_watch failed for one
\* pending request, nothing of the flush is left: the requests it flushed
\* before the failing one are keys of descriptors and values of aliases no
\* more.
C15_NoPartialFlush ==
    [][(enter_resume /\ enter.wd < 0) =>
          /\ ret' = Ret("__aenter__", "IOError")
          /\ \A i \in Live(requests) :
                 i < enter.pos - 1 =>
                     /\ requests[i].alias \notin DOMAIN descriptors'
                     /\ requests[i].alias \notin Resolved(aliases')]_vars

\* C16: in every state descriptors and aliases are inverses of each other:
\* an active alias has one wd, that wd has this alias, and no two active
\* aliases have the same wd, also when two aliases are registered for one
\* path and inotify_add_watch returns one wd for both.
C16_Inverses ==
    /\ \A a \in DOMAIN descriptors :
           descriptors[a] \in DOMAIN aliases /\ aliases[descriptors[a]] = a
    /\ \A w \in DOMAIN aliases :
           aliases[w] \in DOMAIN descriptors /\ descriptors[aliases[w]] = w

\* C17: in every state between operations, also after a failed start and
\* after a stop, _fd and _stream are both None or both set.
C17_HandleAndStream == (_fd = None) <=> (_stream = None)

\* C17 happens: a stop was called on a watcher whose start had failed, and
\* the handle and the stream are both there.
C17_Witness ==
    /\ ret.op = "close"
    /\ ~entered /\ enter.pc = "none"
    /\ _fd # None /\ _stream # None

\* C18: a watch or awatch that raises IOError on a started watcher leaves
\* requests, descriptors and aliases as they were before the call: the
\* alias that failed is no key of requests, so it can be registered again.
C18_FailedWatchUnregistered ==
    [][/\ \A c \in Calls :
             (watch(c[1], c[2]) /\ ret'.res = "IOError") => UNCHANGED Tables
       /\ \A a \in DOMAIN tasks :
             (awatch_resume(a) /\ ret'.res = "IOError") =>
                 /\ a \notin Keys(requests')
                 /\ UNCHANGED <<descriptors, aliases>>]_vars

\* C19: once a whole frame of an active watch is in the buffer, get_event
\* returns its Event without waiting for the handle again: no get_event is
\* suspended after it has read the header of a written frame that has no
\* name and whose wd is active.
C19_NoWaitOnWholeFrame ==
    ~(/\ getter.pc = "path"
      /\ Val(getter.hdr).length = 0
      /\ Val(getter.hdr).wd \in DOMAIN aliases
      /\ \E i \in DOMAIN written :
             written[i] = Frame(Val(getter.hdr).wd, Val(getter.hdr).flags,
                                Val(getter.hdr).cookie, <<>>))

\* C20: however the flush of __aenter__ and the awatch calls of another task
\* for other aliases interleave, inotify_add_watch is called at most once
\* for an alias, the assertion of _setup_watch holds, and once every call
\* has ended every alias of requests is active.
C20_FlushAgainstAwatch ==
    /\ ret.res # "AssertionError"
    /\ \A a \in DOMAIN issued : issued[a] <= 1
    /\ (Started /\ enter.pc = "none" /\ DOMAIN tasks = {}) =>
           DOMAIN descriptors = Keys(requests)

====
